---- MODULE Spec2Model ----
(***************************************************************************)
(* Model of the SQL safety gates of access-manager-proj:                   *)
(*   - SafeQueryValidator / SafeDuckDBExecutor   (sql_query_validator.py)  *)
(*   - AnalyticsService                 (src/services/analytics_service.py)*)
(*                                                                         *)
(* A query text is a sequence of characters.  Punctuation is kept one      *)
(* character per element ("-", "/", "*", ";", "'", ...); a run of word     *)
(* characters that the regexes can only see as a whole (SELECT, DROP, x)   *)
(* is kept as one element, so "DROP" next to "x" is the longer word DROPx. *)
(***************************************************************************)
EXTENDS Integers, Sequences, FiniteSets, TLC

VARIABLES
    sqlglot_available,  \* module flag SQLGLOT_AVAILABLE (import succeeded)
    strict_mode,        \* SafeQueryValidator.strict_mode
    api,                \* entry point serving the current request
    input,              \* the request as its author built it (structure)
    query,              \* the request's query text
    parsed,             \* what parse_one answers for the query text
    limit,              \* SQLQueryRequest.limit
    pc,                 \* position of the request handler
    outcome,            \* result of the validation call
    executed,           \* statements handed to connection.execute
    row_count,          \* SQLQueryResponse.row_count, -1 while there is none
    calls,              \* validate calls this validator has served, up to MaxCalls
    explanation,        \* the pair validate_and_explain returned
    compiled,           \* the validator's keyword set and compiled patterns
    threads,            \* the calls running on the shared validator, per thread
    users,              \* table users: id -> username
    accesses,           \* table accesses: id -> name
    user_accesses,      \* table user_accesses: the (user_id, access_id) rows
    next_user_id,       \* the id the next INSERT INTO users is given
    next_access_id,     \* the id the next INSERT INTO accesses is given
    db_call,            \* the last call made to UserService / AccessService
    conversations,      \* ChatHistoryService._conversations: id -> conversation
    next_conversation_id, \* the id the next create_conversation draws
    next_message,       \* the number of the next message text sent or added
    requests,           \* the /chat requests being handled, per handler slot
    svc_call            \* the last direct call made to ChatHistoryService

\* the state outside a single validator or service call
\* the tables behind UserService and AccessService
dbVars == <<users, accesses, user_accesses, next_user_id, next_access_id, db_call>>

\* the chat history store and the /chat handlers
chatVars == <<conversations, next_conversation_id, next_message, requests, svc_call>>

appVars == <<compiled, threads, dbVars, chatVars>>

vars == <<sqlglot_available, strict_mode, api, input, query, parsed, limit,
          pc, outcome, executed, row_count, calls, explanation, appVars>>

(***************************************************************************)
(* Bounds                                                                  *)
(***************************************************************************)
MaxLen == 5        \* lexemes in a raw query text
MaxNodes == 3      \* nodes in a parsed statement
MaxTables == 2     \* table references in an analytics query
MaxCalls == 2      \* validate calls counted on one validator
MaxIds == 2        \* rows ever inserted into users, and into accesses
MaxConversations == 2  \* conversations ever created
MaxMessages == 2   \* message texts ever sent to /chat/message or added directly

(***************************************************************************)
(* Characters                                                              *)
(***************************************************************************)
Words ==
    {"SELECT", "select", "SeLeCt", "WITH", "with", "FROM", "JOIN", "LIMIT", "limit",
     "LIMITS", "limits", "DROP", "drop", "DrOp", "DELETE", "delete", "DeLeTe",
     "MERGE", "merge", "COPY", "x", "X", "users", "USERS", "secrets",
     "SECRETS", "main", "MAIN"}

\* decimal numbers as they appear in a text
Numbers == {"1", "100", "1000"}

IsWord(c) == c \in Words \cup Numbers   \* regex \w (a run of word characters)
IsIdentStart(c) == c \in Words          \* regex [a-zA-Z_] begins the element
IsSpace(c) == c \in {" ", "\n"}   \* regex \s

\* str.upper() on one element
Upper(c) ==
    CASE c \in {"select", "SeLeCt"} -> "SELECT"
      [] c \in {"drop", "DrOp"}     -> "DROP"
      [] c \in {"delete", "DeLeTe"} -> "DELETE"
      [] c = "merge"   -> "MERGE"
      [] c = "with"    -> "WITH"
      [] c = "limit"   -> "LIMIT"
      [] c = "limits"  -> "LIMITS"
      [] c = "x"       -> "X"
      [] c = "users"   -> "USERS"
      [] c = "secrets" -> "SECRETS"
      [] c = "main"    -> "MAIN"
      [] OTHER         -> c

\* str.lower() on one element
Lower(c) ==
    CASE c \in {"SELECT", "SeLeCt"} -> "select"
      [] c \in {"DROP", "DrOp"}     -> "drop"
      [] c \in {"DELETE", "DeLeTe"} -> "delete"
      [] c = "MERGE"   -> "merge"
      [] c = "WITH"    -> "with"
      [] c = "LIMIT"   -> "limit"
      [] c = "LIMITS"  -> "limits"
      [] c = "X"       -> "x"
      [] c = "USERS"   -> "users"
      [] c = "SECRETS" -> "secrets"
      [] c = "MAIN"    -> "main"
      [] OTHER         -> c

UpperStr(s) == [i \in 1..Len(s) |-> Upper(s[i])]

Min(S) == CHOOSE m \in S : \A n \in S : m <= n

RECURSIVE Flatten(_)
\* concatenation of a sequence of character sequences
Flatten(ss) == IF ss = <<>> THEN <<>> ELSE Head(ss) \o Flatten(Tail(ss))

\* the characters of one lexeme of a raw text
LexChars(l) ==
    CASE l = "--" -> <<"-", "-">>
      [] l = "/*" -> <<"/", "*">>
      [] l = "*/" -> <<"*", "/">>
      [] OTHER    -> <<l>>

TextOf(ls) == Flatten([i \in 1..Len(ls) |-> LexChars(ls[i])])

RECURSIVE LStrip(_)
LStrip(s) == IF s # <<>> /\ IsSpace(Head(s)) THEN LStrip(Tail(s)) ELSE s

RECURSIVE RStrip(_)
RStrip(s) ==
    IF s # <<>> /\ IsSpace(s[Len(s)]) THEN RStrip(SubSeq(s, 1, Len(s) - 1))
    ELSE s

\* str.strip()
Strip(s) == RStrip(LStrip(s))

(***************************************************************************)
(* DangerousOperation and the validator's construction                     *)
(***************************************************************************)
DangerousOperation ==
    {"INSERT", "UPDATE", "DELETE", "MERGE", "REPLACE", "TRUNCATE",
     "CREATE", "ALTER", "DROP", "RENAME", "GRANT", "REVOKE",
     "COMMIT", "ROLLBACK", "SAVEPOINT",
     "CALL", "EXECUTE", "EXEC", "COPY", "LOAD", "INSTALL", "ATTACH",
     "DETACH", "PRAGMA", "SET",
     "CHECKPOINT", "VACUUM", "ANALYZE", "EXPORT", "IMPORT"}

\* self.dangerous_keywords
dangerous_keywords == DangerousOperation

(***************************************************************************)
(* Validation outcomes.  QueryValidationError is a Rejected outcome; the   *)
(* category names the message raised, found what the message carries.      *)
(* regex_runs counts runs of _validate_with_regex, visited the nodes the   *)
(* traversal looked at.                                                    *)
(***************************************************************************)
NoOutcome ==
    [status |-> "None", category |-> "", found |-> "", regex_runs |-> 0,
     visited |-> 0]

Accepted ==
    [status |-> "Accepted", category |-> "", found |-> "", regex_runs |-> 0,
     visited |-> 0]

Rejected(category, found) ==
    [status |-> "Rejected", category |-> category, found |-> found,
     regex_runs |-> 0, visited |-> 0]

\* str(e) of the QueryValidationError behind a rejection
ErrorMessage(r) ==
    CASE r.category = "empty-query" -> "Empty query provided"
      [] r.category = "parse-error" -> "Query parsing failed: ..."
      [] r.category = "not-a-select" -> "Only SELECT queries are allowed / Query must start with SELECT. Found: ..."
      [] r.category = "dangerous-operation" -> "Dangerous operation detected: ..."
      [] r.category = "dangerous-function-call" -> "Dangerous function call detected: ..."
      [] r.category = "multi-statement" -> "Multiple SQL statements detected (semicolon found)."
      [] OTHER -> ""

\* what validate_and_explain returns; error_message "None" stands for None
NoExplanation == [is_valid |-> FALSE, error_message |-> "no-call"]

Explain(r) ==
    IF r.status = "Accepted"
    THEN [is_valid |-> TRUE, error_message |-> "None"]
    ELSE [is_valid |-> FALSE, error_message |-> ErrorMessage(r)]

(***************************************************************************)
(* The lexical path                                                        *)
(***************************************************************************)
RECURSIVE RemoveLineComments(_, _, _)
\* re.sub(r'--[^\n]*', '', query) from position i on
RemoveLineComments(s, i, inComment) ==
    IF i > Len(s) THEN <<>>
    ELSE IF inComment
         THEN IF s[i] = "\n"
              THEN <<s[i]>> \o RemoveLineComments(s, i + 1, FALSE)
              ELSE RemoveLineComments(s, i + 1, TRUE)
         ELSE IF s[i] = "-" /\ i < Len(s) /\ s[i + 1] = "-"
              THEN RemoveLineComments(s, i + 2, TRUE)
              ELSE <<s[i]>> \o RemoveLineComments(s, i + 1, FALSE)

\* ends of the candidates for the \*/ that closes a /* opened at i
BlockEnds(s, i) ==
    {j \in (i + 2)..(Len(s) - 1) : s[j] = "*" /\ s[j + 1] = "/"}

RECURSIVE RemoveBlockComments(_, _)
\* re.sub(r'/\*.*?\*/', '', query, flags=re.DOTALL) from position i on
RemoveBlockComments(s, i) ==
    IF i > Len(s) THEN <<>>
    ELSE IF s[i] = "/" /\ i < Len(s) /\ s[i + 1] = "*" /\ BlockEnds(s, i) # {}
         THEN RemoveBlockComments(s, Min(BlockEnds(s, i)) + 2)
         ELSE <<s[i]>> \o RemoveBlockComments(s, i + 1)

remove_sql_comments(q) ==
    RemoveBlockComments(RemoveLineComments(q, 1, FALSE), 1)

\* a multi-statement pattern that takes any semicolon for a second statement
multi_statement_search_any_semicolon(s) == \E i \in 1..Len(s) : s[i] = ";"

\* self.multi_statement_pattern.search(s): r';\s*\w'
multi_statement_search(s) ==
    \E i \in 1..Len(s) :
        /\ s[i] = ";"
        /\ \E j \in (i + 1)..Len(s) :
               /\ IsWord(s[j])
               /\ \A k \in (i + 1)..(j - 1) : IsSpace(s[k])

\* the dangerous pattern compiled without re.IGNORECASE
DangerousMatchesCaseSensitive(s) ==
    {i \in 1..Len(s) :
        /\ s[i] \in dangerous_keywords
        /\ (i = 1 \/ ~IsWord(s[i - 1]))
        /\ (i = Len(s) \/ ~IsWord(s[i + 1]))}

\* the dangerous pattern compiled without its word boundaries
DangerousMatchesAnywhere(s) ==
    {i \in 1..Len(s) : Upper(s[i]) \in dangerous_keywords}

\* positions where self.dangerous_pattern matches: \b(?:kw|...)\b, IGNORECASE
DangerousMatches(s) ==
    {i \in 1..Len(s) :
        /\ Upper(s[i]) \in dangerous_keywords
        /\ (i = 1 \/ ~IsWord(s[i - 1]))
        /\ (i = Len(s) \/ ~IsWord(s[i + 1]))}

RECURSIVE WordRun(_)
\* the leading run of word characters
WordRun(s) ==
    IF s # <<>> /\ IsWord(Head(s)) THEN <<Head(s)>> \o WordRun(Tail(s))
    ELSE <<>>

\* re.match(r'\s*(\w+)', query).group(1).upper(), <<>> for None
get_first_keyword(q) == UpperStr(WordRun(LStrip(q)))

\* the lexical path without its last check (first keyword must be SELECT)
validate_with_regex_no_first_keyword(q) ==
    LET query_no_comments == remove_sql_comments(q)
        r == IF multi_statement_search(query_no_comments)
             THEN Rejected("multi-statement", "")
             ELSE IF DangerousMatches(query_no_comments) # {}
             THEN Rejected("dangerous-operation",
                      Upper(query_no_comments[Min(DangerousMatches(query_no_comments))]))
             ELSE Accepted
    IN  [r EXCEPT !.regex_runs = 1]

\* a lexical path that looks for dangerous keywords before it looks for a
\* second statement
validate_with_regex_keyword_first(q) ==
    LET query_no_comments == remove_sql_comments(q)
        first_keyword == get_first_keyword(query_no_comments)
        r == IF DangerousMatches(query_no_comments) # {}
             THEN Rejected("dangerous-operation",
                      Upper(query_no_comments[Min(DangerousMatches(query_no_comments))]))
             ELSE IF multi_statement_search(query_no_comments)
             THEN Rejected("multi-statement", "")
             ELSE IF first_keyword # <<"SELECT">>
             THEN Rejected("not-a-select", IF first_keyword = <<>> THEN "unknown" ELSE "word")
             ELSE Accepted
    IN  [r EXCEPT !.regex_runs = 1]

FoundName(w) == IF w = <<>> THEN "unknown" ELSE IF Len(w) = 1 THEN w[1] ELSE "longer-word"

validate_with_regex(q) ==
    LET query_no_comments == remove_sql_comments(q)
        first_keyword == get_first_keyword(query_no_comments)
        r == IF multi_statement_search(query_no_comments)
             THEN Rejected("multi-statement", "")
             ELSE IF DangerousMatches(query_no_comments) # {}
             THEN Rejected("dangerous-operation",
                      Upper(query_no_comments[Min(DangerousMatches(query_no_comments))]))
             ELSE IF first_keyword # <<"SELECT">>
             THEN Rejected("not-a-select", FoundName(first_keyword))
             ELSE Accepted
    IN  [r EXCEPT !.regex_runs = 1]

(***************************************************************************)
(* The AST path.  A node of the parsed statement is                        *)
(* [kind, this, kids]: the class name of the sqlglot expression, its name  *)
(* when it is a function call, and its child expressions in the order      *)
(* iter_expressions yields them.                                           *)
(***************************************************************************)
dangerous_types ==
    {"Insert", "Update", "Delete", "Drop", "Create", "Alter", "Merge",
     "Truncate", "Grant", "Revoke", "Command"}

Node(kind, this, kids) == [kind |-> kind, this |-> this, kids |-> kids]

RECURSIVE check_ast_for_dangerous_operations(_), CheckChildren(_, _)

\* a traversal that returns once its first child subtree is found clean
CheckChildrenEarlyReturn(kids, i) ==
    IF i > Len(kids) THEN Accepted
    ELSE check_ast_for_dangerous_operations(kids[i])

\* a check that refuses every anonymous function call, whatever its name
check_ast_any_anonymous(node) ==
    IF node.kind \in dangerous_types
    THEN [Rejected("dangerous-operation", node.kind) EXCEPT !.visited = 1]
    ELSE IF node.kind = "Anonymous"
    THEN [Rejected("dangerous-function-call", Upper(node.this))
             EXCEPT !.visited = 1]
    ELSE LET r == CheckChildren(node.kids, 1)
         IN  [r EXCEPT !.visited = r.visited + 1]

\* a check that compares a function's name as written, without upper()
check_ast_names_as_written(node) ==
    IF node.kind \in dangerous_types
    THEN [Rejected("dangerous-operation", node.kind) EXCEPT !.visited = 1]
    ELSE IF node.kind = "Anonymous" /\ node.this \in dangerous_keywords
    THEN [Rejected("dangerous-function-call", node.this) EXCEPT !.visited = 1]
    ELSE LET r == CheckChildren(node.kids, 1)
         IN  [r EXCEPT !.visited = r.visited + 1]

\* for child in node.iter_expressions(): self._check_ast_...(child)
CheckChildren(kids, i) ==
    IF i > Len(kids) THEN Accepted
    ELSE LET r == check_ast_for_dangerous_operations(kids[i])
         IN  IF r.status = "Rejected" THEN r
             ELSE LET rest == CheckChildren(kids, i + 1)
                  IN  [rest EXCEPT !.visited = r.visited + rest.visited]

check_ast_for_dangerous_operations(node) ==
    IF node.kind \in dangerous_types
    THEN [Rejected("dangerous-operation", node.kind) EXCEPT !.visited = 1]
    ELSE IF node.kind = "Anonymous" /\ Upper(node.this) \in dangerous_keywords
    THEN [Rejected("dangerous-function-call", Upper(node.this))
             EXCEPT !.visited = 1]
    ELSE LET r == CheckChildren(node.kids, 1)
         IN  [r EXCEPT !.visited = r.visited + 1]

\* the AST path with the traversal run before the root is looked at
validate_with_sqlglot_traverse_first(q, p) ==
    IF ~p.ok
    THEN IF strict_mode THEN Rejected("parse-error", "ParseError")
         ELSE validate_with_regex(q)
    ELSE LET r == check_ast_for_dangerous_operations(p.tree)
         IN  IF r.status = "Rejected" THEN r
             ELSE IF p.tree.kind # "Select"
             THEN Rejected("not-a-select", p.tree.kind)
             ELSE r

\* an AST path that falls back to the lexical path in strict mode as well
validate_with_sqlglot_always_fallback(q, p) ==
    IF ~p.ok
    THEN validate_with_regex(q)
    ELSE IF p.tree.kind # "Select"
    THEN Rejected("not-a-select", p.tree.kind)
    ELSE check_ast_for_dangerous_operations(p.tree)

\* p is what parse_one(query, dialect=self.dialect) answers for the text q
validate_with_sqlglot(q, p) ==
    IF ~p.ok
    THEN IF strict_mode THEN Rejected("parse-error", "ParseError")
         ELSE validate_with_regex(q)
    ELSE IF p.tree.kind # "Select"
    THEN Rejected("not-a-select", p.tree.kind)
    ELSE check_ast_for_dangerous_operations(p.tree)

\* a validate that hands blank input on to the parser or the lexical path
validate_no_empty_check(q, p) ==
    IF sqlglot_available THEN validate_with_sqlglot(Strip(q), p)
    ELSE validate_with_regex(Strip(q))

\* SafeQueryValidator.validate
validate(q, p) ==
    IF q = <<>> \/ Strip(q) = <<>> THEN Rejected("empty-query", "")
    ELSE IF sqlglot_available THEN validate_with_sqlglot(Strip(q), p)
    ELSE validate_with_regex(Strip(q))

(***************************************************************************)
(* Requests.  A request to the validator is a statement tree with what     *)
(* follows it in the text; its text is the tree written out as SQL, and    *)
(* the parser answers with the tree of the first statement of the text, or *)
(* with ParseError when the text is malformed.                             *)
(***************************************************************************)
AstVariants ==
    {[kind |-> "Select", this |-> ""], [kind |-> "With", this |-> ""],
     [kind |-> "Subquery", this |-> ""], [kind |-> "Delete", this |-> ""],
     [kind |-> "Anonymous", this |-> "drop"],
     [kind |-> "Anonymous", this |-> "x"]}

RECURSIVE TreesOfSize(_), ForestsOfSize(_)
TreesOfSize(n) ==
    IF n < 1 THEN {}
    ELSE {Node(v.kind, v.this, f) : v \in AstVariants, f \in ForestsOfSize(n - 1)}

ForestsOfSize(m) ==
    IF m = 0 THEN {<<>>}
    ELSE UNION {{<<t>> \o f : t \in TreesOfSize(j), f \in ForestsOfSize(m - j)} :
                   j \in 1..m}

AstTrees == UNION {TreesOfSize(n) : n \in 1..MaxNodes}

NoTree == Node("None", "", <<>>)
NoParse == [ok |-> FALSE, tree |-> NoTree]

RECURSIVE Render(_), RenderKids(_, _)
RenderKids(kids, i) ==
    IF i > Len(kids) THEN <<>>
    ELSE <<" ">> \o Render(kids[i]) \o RenderKids(kids, i + 1)

\* the SQL text of a statement tree
Render(n) ==
    CASE n.kind = "Select" ->
            IF n.kids # <<>> /\ n.kids[1].kind = "With"
            THEN Render(n.kids[1]) \o <<" ", "SELECT">> \o RenderKids(n.kids, 2)
            ELSE <<"SELECT">> \o RenderKids(n.kids, 1)
      [] n.kind = "With" -> <<"WITH", " ", "(">> \o RenderKids(n.kids, 1) \o <<")">>
      [] n.kind = "Subquery" -> <<"(">> \o RenderKids(n.kids, 1) \o <<")">>
      [] n.kind = "Delete" -> <<"DELETE">> \o RenderKids(n.kids, 1)
      [] n.kind = "Anonymous" -> <<n.this, "(">> \o RenderKids(n.kids, 1) \o <<")">>
      [] OTHER -> <<>>

\* what may follow the first statement in the text
Tails == {<<>>, <<";", " ", "DROP">>}

NoInput == [stmt |-> NoTree, tail |-> <<>>, bad |-> FALSE, refs |-> <<>>]

AstInputs ==
    {[stmt |-> t, tail |-> tl, bad |-> b, refs |-> <<>>] :
        t \in AstTrees, tl \in Tails, b \in BOOLEAN}

InputText(i) == Render(i.stmt) \o i.tail \o (IF i.bad THEN <<" ", "(">> ELSE <<>>)

\* parse_one(query): the tree of the first statement, ParseError when malformed
parse_one(i) == IF i.bad THEN NoParse ELSE [ok |-> TRUE, tree |-> i.stmt]

(***************************************************************************)
(* The shared validator instance and the threads that call it              *)
(***************************************************************************)
Threads == {"t1", "t2"}

\* what __init__ and _compile_patterns leave on the instance
Compiled ==
    [dangerous_keywords |-> dangerous_keywords,
     dangerous_pattern |-> "\\b(?:keywords)\\b, IGNORECASE",
     multi_statement_pattern |-> ";\\s*\\w, MULTILINE"]

\* a thread that is not inside validate
IdleThread == [pc |-> "idle", input |-> NoInput, query |-> <<>>, outcome |-> NoOutcome]

\* the handler slots of the event loop that serves /chat
Requests == {"r1", "r2"}

\* a slot with no request; requester 0 is a request without authenticated
\* user, owner 0 a handler that holds no conversation object
IdleRequest ==
    [endpoint |-> "none", pc |-> "idle", requester |-> 0, conversation_id |-> 0,
     owner |-> 0, message |-> 0, status |-> 0, body |-> "none"]

\* no direct call made yet to the chat history service
NoSvcCall == [op |-> "none", conversation_id |-> 0, result |-> "none"]

\* no call made yet to the user and access services
NoDbCall == [op |-> "none", result |-> "none", deleted_rows |-> 0]

AppInit ==
    /\ compiled = Compiled
    /\ threads = [t \in Threads |-> IdleThread]
    /\ users = <<>>
    /\ accesses = <<>>
    /\ user_accesses = {}
    /\ next_user_id = 1
    /\ next_access_id = 1
    /\ db_call = NoDbCall
    /\ conversations = <<>>
    /\ next_conversation_id = 1
    /\ next_message = 1
    /\ requests = [r \in Requests |-> IdleRequest]
    /\ svc_call = NoSvcCall

(***************************************************************************)
(* Spec: SafeQueryValidator.validate called on parsed statements           *)
(***************************************************************************)
Init ==
    /\ sqlglot_available \in BOOLEAN
    /\ strict_mode \in BOOLEAN
    /\ api = "none"
    /\ input = NoInput
    /\ query = <<>>
    /\ parsed = NoParse
    /\ limit = 0
    /\ pc = "idle"
    /\ outcome = NoOutcome
    /\ executed = <<>>
    /\ row_count = -1
    /\ calls = 0
    /\ explanation = NoExplanation
    /\ AppInit

\* a validator that gives up strict mode once the parser has failed
ValidateRelaxing(i) ==
    /\ pc = "idle"
    /\ UNCHANGED <<sqlglot_available, limit, executed, row_count, explanation, appVars>>
    /\ calls' = (IF calls < MaxCalls THEN calls + 1 ELSE calls)
    /\ strict_mode' = (strict_mode /\ ~(sqlglot_available /\ i.bad))
    /\ api' = "validate"
    /\ input' = i
    /\ query' = InputText(i)
    /\ parsed' = (IF sqlglot_available THEN parse_one(i) ELSE NoParse)
    /\ outcome' = validate(InputText(i), parse_one(i))
    /\ pc' = "done"

\* validator.validate(query), from call to return or raise
Validate(i) ==
    /\ pc = "idle"
    /\ UNCHANGED <<sqlglot_available, strict_mode, limit, executed, row_count, explanation, appVars>>
    /\ calls' = (IF calls < MaxCalls THEN calls + 1 ELSE calls)
    /\ api' = "validate"
    /\ input' = i
    /\ query' = InputText(i)
    /\ parsed' = (IF sqlglot_available THEN parse_one(i) ELSE NoParse)
    /\ outcome' = validate(InputText(i), parse_one(i))
    /\ pc' = "done"

\* a validate_and_explain that lets the QueryValidationError through
ValidateAndExplainUncaught(i) ==
    /\ pc = "idle"
    /\ UNCHANGED <<sqlglot_available, strict_mode, limit, executed, row_count, appVars>>
    /\ calls' = (IF calls < MaxCalls THEN calls + 1 ELSE calls)
    /\ api' = "validate_and_explain"
    /\ input' = i
    /\ query' = InputText(i)
    /\ parsed' = (IF sqlglot_available THEN parse_one(i) ELSE NoParse)
    /\ outcome' = validate(InputText(i), parse_one(i))
    /\ explanation' = (IF validate(InputText(i), parse_one(i)).status = "Accepted"
                       THEN Explain(validate(InputText(i), parse_one(i)))
                       ELSE NoExplanation)
    /\ pc' = (IF validate(InputText(i), parse_one(i)).status = "Accepted"
              THEN "done" ELSE "raised_validation")

\* validator.validate_and_explain(query): validate inside try / except
\* QueryValidationError
ValidateAndExplain(i) ==
    /\ pc = "idle"
    /\ UNCHANGED <<sqlglot_available, strict_mode, limit, executed, row_count, appVars>>
    /\ calls' = (IF calls < MaxCalls THEN calls + 1 ELSE calls)
    /\ api' = "validate_and_explain"
    /\ input' = i
    /\ query' = InputText(i)
    /\ parsed' = (IF sqlglot_available THEN parse_one(i) ELSE NoParse)
    /\ outcome' = validate(InputText(i), parse_one(i))
    /\ explanation' = Explain(validate(InputText(i), parse_one(i)))
    /\ pc' = "done"

\* the caller takes the result; the validator is ready for the next call
Return ==
    /\ pc = "done"
    /\ explanation' = NoExplanation
    /\ api' = "none"
    /\ input' = NoInput
    /\ query' = <<>>
    /\ parsed' = NoParse
    /\ outcome' = NoOutcome
    /\ pc' = "idle"
    /\ UNCHANGED <<sqlglot_available, strict_mode, limit, executed, row_count, calls, appVars>>

Next ==
    \/ pc = "idle" /\ \E i \in AstInputs : Validate(i)
    \/ pc = "idle" /\ \E i \in AstInputs : ValidateAndExplain(i)
    \/ Return

Spec == Init /\ [][Next]_vars

(***************************************************************************)
(* SpecLex: validate called on raw texts.  A raw text comes without a      *)
(* tree, so where sqlglot is installed only the texts that never reach the *)
(* parser are called: the empty and the all-whitespace ones.               *)
(***************************************************************************)
LexAlphabet == {"SELECT", "DROP", "x", "'", "--", "/*", "*/", ";", " ", "\n"}

LexStrings == UNION {[1..n -> LexAlphabet] : n \in 0..MaxLen}

InitLex ==
    /\ sqlglot_available \in BOOLEAN
    /\ strict_mode \in BOOLEAN
    /\ api = "none"
    /\ input = NoInput
    /\ query = <<>>
    /\ parsed = NoParse
    /\ limit = 0
    /\ pc = "idle"
    /\ outcome = NoOutcome
    /\ executed = <<>>
    /\ row_count = -1
    /\ calls = 0
    /\ explanation = NoExplanation
    /\ AppInit

\* validator.validate(query) on the text q
ValidateRaw(q) ==
    /\ pc = "idle"
    /\ sqlglot_available => Strip(q) = <<>>
    /\ UNCHANGED <<sqlglot_available, strict_mode, limit, executed, row_count, calls, explanation, appVars>>
    /\ api' = "validate"
    /\ input' = NoInput
    /\ query' = q
    /\ parsed' = NoParse
    /\ outcome' = validate(q, NoParse)
    /\ pc' = "done"

NextLex ==
    \/ pc = "idle" /\ \E ls \in LexStrings : ValidateRaw(TextOf(ls))
    \/ Return

SpecLex == InitLex /\ [][NextLex]_vars

(***************************************************************************)
(* AnalyticsService                                                        *)
(***************************************************************************)
DANGEROUS_KEYWORDS ==
    <<"DROP", "DELETE", "INSERT", "UPDATE", "TRUNCATE", "ALTER", "CREATE",
      "REPLACE", "EXEC", "EXECUTE", "CALL", "ATTACH", "DETACH", "PRAGMA",
      "LOAD", "INSTALL", "COPY", "EXPORT">>

ALLOWED_TABLES == {"users", "accesses", "user_accesses"}

\* re.search(r'\bKW\b', query_upper, re.IGNORECASE)
KeywordSearch(s, kw) ==
    \E i \in 1..Len(s) :
        /\ Upper(s[i]) = kw
        /\ (i = 1 \/ ~IsWord(s[i - 1]))
        /\ (i = Len(s) \/ ~IsWord(s[i + 1]))

\* '--' in query or '/*' in query or '*/' in query
HasCommentSyntax(q) ==
    \E i \in 1..(Len(q) - 1) :
        \/ q[i] = "-" /\ q[i + 1] = "-"
        \/ q[i] = "/" /\ q[i + 1] = "*"
        \/ q[i] = "*" /\ q[i + 1] = "/"

\* query.count(';')
CountSemicolons(q) == Cardinality({i \in 1..Len(q) : q[i] = ";"})

\* query.strip().endswith(';')
EndsWithSemicolon(q) == Strip(q) # <<>> /\ Strip(q)[Len(Strip(q))] = ";"

RECURSIVE SkipSpaces(_, _)
\* the first position from i on that holds no whitespace
SkipSpaces(s, i) ==
    IF i <= Len(s) /\ IsSpace(s[i]) THEN SkipSpaces(s, i + 1) ELSE i

RECURSIVE FindTables(_, _)
\* re.findall(r'(?:FROM|JOIN)\s+([a-zA-Z_][a-zA-Z0-9_]*)', s, re.IGNORECASE)
\* from position i on; each table is the run of word elements captured
FindTables(s, i) ==
    IF i > Len(s) THEN <<>>
    ELSE LET j == SkipSpaces(s, i + 1)
         IN  IF /\ Upper(s[i]) \in {"FROM", "JOIN"}
                /\ j > i + 1
                /\ j <= Len(s)
                /\ IsIdentStart(s[j])
             THEN LET run == WordRun(SubSeq(s, j, Len(s)))
                  IN  <<run>> \o FindTables(s, j + Len(run))
             ELSE FindTables(s, i + 1)

\* table.lower() not in self.ALLOWED_TABLES
ForbiddenTable(run) == ~(Len(run) = 1 /\ Lower(run[1]) \in ALLOWED_TABLES)

\* a validate_query without its check for comment syntax
validate_query_no_comment_check(q) ==
    LET query_upper == UpperStr(q)
        hits == {k \in 1..Len(DANGEROUS_KEYWORDS) :
                    KeywordSearch(query_upper, DANGEROUS_KEYWORDS[k])}
        found_tables == FindTables(query_upper, 1)
        bad_tables == {k \in 1..Len(found_tables) : ForbiddenTable(found_tables[k])}
    IN  IF hits # {}
        THEN Rejected("forbidden-keyword", DANGEROUS_KEYWORDS[Min(hits)])
        ELSE IF CountSemicolons(q) > 1
                \/ (CountSemicolons(q) > 0 /\ ~EndsWithSemicolon(q))
        THEN Rejected("multi-statement", "")
        ELSE IF bad_tables # {}
        THEN Rejected("forbidden-table", FoundName(found_tables[Min(bad_tables)]))
        ELSE Accepted

\* a validate_query without its check for semicolons
validate_query_no_semicolon_check(q) ==
    LET query_upper == UpperStr(q)
        hits == {k \in 1..Len(DANGEROUS_KEYWORDS) :
                    KeywordSearch(query_upper, DANGEROUS_KEYWORDS[k])}
        found_tables == FindTables(query_upper, 1)
        bad_tables == {k \in 1..Len(found_tables) : ForbiddenTable(found_tables[k])}
    IN  IF hits # {}
        THEN Rejected("forbidden-keyword", DANGEROUS_KEYWORDS[Min(hits)])
        ELSE IF HasCommentSyntax(q)
        THEN Rejected("forbidden-comment", "")
        ELSE IF bad_tables # {}
        THEN Rejected("forbidden-table", FoundName(found_tables[Min(bad_tables)]))
        ELSE Accepted

\* AnalyticsService.validate_query
validate_query(q) ==
    LET query_upper == UpperStr(q)
        hits == {k \in 1..Len(DANGEROUS_KEYWORDS) :
                    KeywordSearch(query_upper, DANGEROUS_KEYWORDS[k])}
        found_tables == FindTables(query_upper, 1)
        bad_tables == {k \in 1..Len(found_tables) : ForbiddenTable(found_tables[k])}
    IN  IF hits # {}
        THEN Rejected("forbidden-keyword", DANGEROUS_KEYWORDS[Min(hits)])
        ELSE IF HasCommentSyntax(q)
        THEN Rejected("forbidden-comment", "")
        ELSE IF CountSemicolons(q) > 1
                \/ (CountSemicolons(q) > 0 /\ ~EndsWithSemicolon(q))
        THEN Rejected("multi-statement", "")
        ELSE IF bad_tables # {}
        THEN Rejected("forbidden-table", FoundName(found_tables[Min(bad_tables)]))
        ELSE Accepted

\* SQLQueryRequest: validate_query_is_select and the bounds on limit
MinLimit == 1
MaxLimit == 1000
DefaultLimit == 100

NumberText(n) ==
    CASE n = 1 -> "1" [] n = 100 -> "100" [] n = 1000 -> "1000" [] OTHER -> "0"

RequestValid(q, n) ==
    /\ Len(q) >= 1
    /\ Strip(q) # <<>>
    /\ Upper(Strip(q)[1]) = "SELECT"
    /\ n >= MinLimit /\ n <= MaxLimit

\* 'LIMIT' in query.upper(): the letters LIMIT anywhere in the text, be it
\* the keyword or a part of a longer word
HasLimit(q) == \E i \in 1..Len(q) : Upper(q[i]) \in {"LIMIT", "LIMITS"}

\* the statement execute_query hands to self.db.execute
PrepareQuery(q, n) ==
    LET stripped == Strip(q)
        no_semi == IF stripped # <<>> /\ stripped[Len(stripped)] = ";"
                   THEN SubSeq(stripped, 1, Len(stripped) - 1)
                   ELSE stripped
    IN  IF HasLimit(no_semi) THEN no_semi
        ELSE no_semi \o <<" ", "LIMIT", " ", NumberText(n)>>

(***************************************************************************)
(* Requests to the analytics endpoint: a SELECT over a list of table       *)
(* references, each written plain, quoted or schema-qualified and joined   *)
(* to the list by a comma or by JOIN.                                      *)
(***************************************************************************)
TableNames == {"users", "secrets"}
RefForms == {"plain", "quoted", "qualified"}

Refs(links) ==
    {[name |-> n, form |-> f, link |-> l] :
        n \in TableNames, f \in RefForms, l \in links}

RECURSIVE RefSeqsOfLen(_)
RefSeqsOfLen(n) ==
    IF n = 1 THEN {<<r>> : r \in Refs({"from"})}
    ELSE {rs \o <<r>> : rs \in RefSeqsOfLen(n - 1), r \in Refs({"comma", "join"})}

RefSeqs == UNION {RefSeqsOfLen(n) : n \in 1..MaxTables}

RenderRef(r) ==
    (CASE r.link = "from"  -> <<" ", "FROM", " ">>
       [] r.link = "comma" -> <<",", " ">>
       [] r.link = "join"  -> <<" ", "JOIN", " ">>)
    \o
    (CASE r.form = "plain"     -> <<r.name>>
       [] r.form = "quoted"    -> <<"\"", r.name, "\"">>
       [] r.form = "qualified" -> <<"main", ".", r.name>>)

RenderRefs(rs) ==
    <<"SELECT", " ", "*">> \o Flatten([k \in 1..Len(rs) |-> RenderRef(rs[k])])

Limits == {MinLimit, DefaultLimit, MaxLimit}

\* what the author may write after the table references
AnalyticsTails ==
    {<<>>,
     <<";">>,
     <<" ", ";", "\n">>,
     <<";", "x">>,
     <<";", ";">>,
     <<" ", "LIMIT", " ", "1000">>,
     <<" ", "limit", " ", "1000", ";">>,
     <<" ", "limits">>,
     <<" ", "merge">>,
     <<" ", "-", "-", " ", "DELETE">>,
     <<" ", "-", "-", " ", "x">>,
     <<" ", "/", "*", "x", "*", "/">>}

AnalyticsInputs ==
    {[stmt |-> NoTree, tail |-> tl, bad |-> FALSE, refs |-> rs] :
        rs \in RefSeqs, tl \in AnalyticsTails}

\* request.query
AnalyticsText(i) == RenderRefs(i.refs) \o i.tail

(***************************************************************************)
(* The database behind self.db.execute: the rows a statement returns are   *)
(* the rows of its unlimited result, cut by the statement's LIMIT clause   *)
(* when it has one.                                                        *)
(***************************************************************************)
NumberValue(t) ==
    CASE t = "1" -> 1 [] t = "100" -> 100 [] t = "1000" -> 1000 [] OTHER -> 0

\* sizes the unlimited result of a query may have
ResultSizes == {0, 1, 2, 100, 101, 1000, 1001}

\* positions of the LIMIT clauses of a statement: the keyword LIMIT as a
\* word of its own, followed by a number
LimitClauses(stmt) ==
    {i \in 1..(Len(stmt) - 2) :
        /\ Upper(stmt[i]) = "LIMIT"
        /\ (i = 1 \/ ~IsWord(stmt[i - 1]))
        /\ stmt[i + 1] = " "
        /\ stmt[i + 2] \in Numbers}

\* len(self.db.execute(stmt).fetchall()) when the unlimited result has n rows
FetchAll(stmt, n) ==
    IF LimitClauses(stmt) = {} THEN n
    ELSE LET cap == NumberValue(stmt[Min(LimitClauses(stmt)) + 2])
         IN  IF n < cap THEN n ELSE cap

(***************************************************************************)
(* SpecExec: SafeDuckDBExecutor and AnalyticsService.execute_query, step   *)
(* by step: the call, the validation, the database call, the return.       *)
(***************************************************************************)
ExecutorApis == {"execute_safe_query", "execute_safe_query_to_df"}

\* execute_safe_query(query) / execute_safe_query_to_df(query) is called
ExecCall(a, i) ==
    /\ pc = "idle"
    /\ UNCHANGED <<sqlglot_available, strict_mode, limit, executed, outcome, row_count, calls, explanation, appVars>>
    /\ api' = a
    /\ input' = i
    /\ query' = InputText(i)
    /\ parsed' = (IF sqlglot_available THEN parse_one(i) ELSE NoParse)
    /\ pc' = "called"

\* an executor that goes on to the database whatever validate said
ExecValidateSwallowed ==
    /\ pc = "called"
    /\ api \in ExecutorApis
    /\ UNCHANGED <<sqlglot_available, strict_mode, limit, executed, api, input,
                   query, parsed, row_count, calls, explanation, appVars>>
    /\ outcome' = validate(query, parse_one(input))
    /\ pc' = "validated"

\* self.validator.validate(query): a rejection leaves the method at once
ExecValidate ==
    /\ pc = "called"
    /\ api \in ExecutorApis
    /\ UNCHANGED <<sqlglot_available, strict_mode, limit, executed, api, input,
                   query, parsed, row_count, calls, explanation, appVars>>
    /\ outcome' = validate(query, parse_one(input))
    /\ pc' = (IF validate(query, parse_one(input)).status = "Accepted"
              THEN "validated" ELSE "raised_validation")

\* self.connection.execute(query), which the database may itself refuse
ExecExecute ==
    /\ pc = "validated"
    /\ api \in ExecutorApis
    /\ UNCHANGED <<sqlglot_available, strict_mode, limit, outcome, api, input,
                   query, parsed, row_count, calls, explanation, appVars>>
    /\ executed' = Append(executed, query)
    /\ \E ok \in BOOLEAN : pc' = (IF ok THEN "returned" ELSE "raised_execution")

\* POST /admin/analytics/query with a request the schema let through
AnalyticsCall(i, n) ==
    /\ pc = "idle"
    /\ RequestValid(AnalyticsText(i), n)
    /\ UNCHANGED <<sqlglot_available, strict_mode, executed, outcome, parsed, row_count, calls, explanation, appVars>>
    /\ api' = "analytics_execute_query"
    /\ input' = i
    /\ query' = AnalyticsText(i)
    /\ limit' = n
    /\ pc' = "called"

\* self.validate_query(request.query)
AnalyticsValidate ==
    /\ pc = "called"
    /\ api = "analytics_execute_query"
    /\ UNCHANGED <<sqlglot_available, strict_mode, limit, executed, api, input,
                   query, parsed, row_count, calls, explanation, appVars>>
    /\ outcome' = validate_query(query)
    /\ pc' = (IF validate_query(query).status = "Accepted"
              THEN "validated" ELSE "raised_validation")

\* self.db.execute(query) on the prepared statement
AnalyticsExecute ==
    /\ pc = "validated"
    /\ api = "analytics_execute_query"
    /\ UNCHANGED <<sqlglot_available, strict_mode, limit, outcome, api, input,
                   query, parsed, calls, explanation, appVars>>
    /\ executed' = Append(executed, PrepareQuery(query, limit))
    /\ \/ \E n \in ResultSizes :
              /\ row_count' = FetchAll(PrepareQuery(query, limit), n)
              /\ pc' = "returned"
       \/ row_count' = -1 /\ pc' = "raised_execution"

\* the caller has its rows or its exception; the next request may come
Finish ==
    /\ pc \in {"returned", "raised_validation", "raised_execution"}
    /\ UNCHANGED <<sqlglot_available, strict_mode, calls, explanation, appVars>>
    /\ row_count' = -1
    /\ api' = "none"
    /\ input' = NoInput
    /\ query' = <<>>
    /\ parsed' = NoParse
    /\ limit' = 0
    /\ outcome' = NoOutcome
    /\ executed' = <<>>
    /\ pc' = "idle"

NextExec ==
    \/ pc = "idle" /\ \E a \in ExecutorApis, i \in AstInputs : ExecCall(a, i)
    \/ ExecValidate
    \/ ExecExecute
    \/ pc = "idle" /\ \E i \in AnalyticsInputs, n \in Limits : AnalyticsCall(i, n)
    \/ AnalyticsValidate
    \/ AnalyticsExecute
    \/ Finish

SpecExec == Init /\ [][NextExec]_vars

(***************************************************************************)
(* SpecConc: validate called from several threads on one shared            *)
(* SafeQueryValidator.  Each call keeps its query, its parse result and    *)
(* its exception in locals of its own frame; the instance attributes and   *)
(* the module flag are what the calls share.  A thread is scheduled        *)
(* between any two of the steps below.                                     *)
(***************************************************************************)
\* the variables of the single-call view of the validator and the services
callVars == <<api, input, query, parsed, limit, pc, outcome, executed,
              row_count, calls, explanation>>

ConcTrees ==
    {Node("Select", "", <<>>),
     Node("Select", "", <<Node("Anonymous", "drop", <<>>)>>),
     Node("Delete", "", <<>>)}

ConcInputs ==
    {NoInput} \cup
    {[stmt |-> t, tail |-> tl, bad |-> b, refs |-> <<>>] :
        t \in ConcTrees, tl \in Tails, b \in BOOLEAN}

\* a thread enters validator.validate(query)
ThreadCall(t, i) ==
    /\ threads[t].pc = "idle"
    /\ threads' = [threads EXCEPT ![t] =
           [pc |-> "validate", input |-> i, query |-> InputText(i),
            outcome |-> NoOutcome]]
    /\ UNCHANGED <<sqlglot_available, strict_mode, compiled, callVars, dbVars, chatVars>>

\* validate: the empty check, query = query.strip(), the choice of path
ThreadValidate(t) ==
    /\ threads[t].pc = "validate"
    /\ threads' = [threads EXCEPT ![t] =
           IF @.query = <<>> \/ Strip(@.query) = <<>>
           THEN [@ EXCEPT !.outcome = Rejected("empty-query", ""), !.pc = "done"]
           ELSE [@ EXCEPT !.query = Strip(threads[t].query),
                          !.pc = IF sqlglot_available THEN "sqlglot" ELSE "regex"]]
    /\ UNCHANGED <<sqlglot_available, strict_mode, compiled, callVars, dbVars, chatVars>>

\* a _validate_with_sqlglot that leaves strict mode once the parser failed
ThreadParseRelaxing(t) ==
    /\ threads[t].pc = "sqlglot"
    /\ LET p == parse_one(threads[t].input)
       IN  /\ threads' = [threads EXCEPT ![t] =
                  IF ~p.ok
                  THEN IF strict_mode
                       THEN [@ EXCEPT !.outcome = Rejected("parse-error", "ParseError"),
                                      !.pc = "done"]
                       ELSE [@ EXCEPT !.pc = "regex"]
                  ELSE IF p.tree.kind # "Select"
                  THEN [@ EXCEPT !.outcome = Rejected("not-a-select", p.tree.kind),
                                 !.pc = "done"]
                  ELSE [@ EXCEPT !.pc = "traverse"]]
           /\ strict_mode' = (strict_mode /\ p.ok)
    /\ UNCHANGED <<sqlglot_available, compiled, callVars, dbVars, chatVars>>

\* _validate_with_sqlglot up to the traversal: parse_one, the ParseError
\* handler, the check of the root
ThreadParse(t) ==
    /\ threads[t].pc = "sqlglot"
    /\ LET p == parse_one(threads[t].input)
       IN  threads' = [threads EXCEPT ![t] =
               IF ~p.ok
               THEN IF strict_mode
                    THEN [@ EXCEPT !.outcome = Rejected("parse-error", "ParseError"),
                                   !.pc = "done"]
                    ELSE [@ EXCEPT !.pc = "regex"]
               ELSE IF p.tree.kind # "Select"
               THEN [@ EXCEPT !.outcome = Rejected("not-a-select", p.tree.kind),
                              !.pc = "done"]
               ELSE [@ EXCEPT !.pc = "traverse"]]
    /\ UNCHANGED <<sqlglot_available, strict_mode, compiled, callVars, dbVars, chatVars>>

\* self._check_ast_for_dangerous_operations(parsed)
ThreadTraverse(t) ==
    /\ threads[t].pc = "traverse"
    /\ threads' = [threads EXCEPT ![t] =
           [@ EXCEPT !.outcome = check_ast_for_dangerous_operations(threads[t].input.stmt),
                     !.pc = "done"]]
    /\ UNCHANGED <<sqlglot_available, strict_mode, compiled, callVars, dbVars, chatVars>>

\* self._validate_with_regex(query)
ThreadRegex(t) ==
    /\ threads[t].pc = "regex"
    /\ threads' = [threads EXCEPT ![t] =
           [@ EXCEPT !.outcome = validate_with_regex(threads[t].query), !.pc = "done"]]
    /\ UNCHANGED <<sqlglot_available, strict_mode, compiled, callVars, dbVars, chatVars>>

\* validate returns or raises; the thread's frame is gone
ThreadReturn(t) ==
    /\ threads[t].pc = "done"
    /\ threads' = [threads EXCEPT ![t] = IdleThread]
    /\ UNCHANGED <<sqlglot_available, strict_mode, compiled, callVars, dbVars, chatVars>>

NextConc ==
    \/ \E t \in Threads, i \in ConcInputs : ThreadCall(t, i)
    \/ \E t \in Threads : ThreadValidate(t)
    \/ \E t \in Threads : ThreadParse(t)
    \/ \E t \in Threads : ThreadTraverse(t)
    \/ \E t \in Threads : ThreadRegex(t)
    \/ \E t \in Threads : ThreadReturn(t)

SpecConc == Init /\ [][NextConc]_vars

(***************************************************************************)
(* SpecAccess: UserService and AccessService called one after another on   *)
(* one database.  A row of users or accesses is its id with its unique     *)
(* name; ids come from the table's sequence and are never given twice.     *)
(***************************************************************************)
Usernames == {"alice", "bob"}
AccessNames == {"READ_DOCS", "ADMIN_PANEL"}
Ids == 1..(MaxIds + 1)

\* the variables of the validator and of its callers
validatorVars == <<sqlglot_available, strict_mode, compiled, threads, callVars>>

\* SELECT ... WHERE username = ? / WHERE name = ?: the ids of the rows
get_by_name(table, name) == {i \in DOMAIN table : table[i] = name}

\* the table with the row (id, name) inserted
Insert(table, id, name) ==
    [i \in DOMAIN table \cup {id} |-> IF i = id THEN name ELSE table[i]]

\* the table without the row id
Delete(table, id) == [i \in DOMAIN table \ {id} |-> table[i]]

DbResult(op, result, rows) == [op |-> op, result |-> result, deleted_rows |-> rows]

\* UserService.create_user -> UserRepository.create
create_user(username) ==
    /\ next_user_id <= MaxIds
    /\ IF get_by_name(users, username) # {}
       THEN /\ db_call' = DbResult("create_user", "ConflictException", 0)
            /\ UNCHANGED <<users, next_user_id>>
       ELSE /\ users' = Insert(users, next_user_id, username)
            /\ next_user_id' = next_user_id + 1
            /\ db_call' = DbResult("create_user", "ok", 0)
    /\ UNCHANGED <<accesses, user_accesses, next_access_id, validatorVars, chatVars>>

\* a UserRepository.delete that leaves the user's assignments behind
delete_user_only(user_id) ==
    /\ IF user_id \notin DOMAIN users
       THEN /\ db_call' = DbResult("delete_user", "NotFoundException", 0)
            /\ UNCHANGED users
       ELSE /\ users' = Delete(users, user_id)
            /\ db_call' = DbResult("delete_user", "ok",
                               Cardinality({r \in user_accesses : r[1] = user_id}))
    /\ UNCHANGED <<accesses, user_accesses, next_user_id, next_access_id, validatorVars, chatVars>>

\* UserService.delete_user -> UserRepository.delete
delete_user(user_id) ==
    /\ IF user_id \notin DOMAIN users
       THEN /\ db_call' = DbResult("delete_user", "NotFoundException", 0)
            /\ UNCHANGED <<users, user_accesses>>
       ELSE /\ user_accesses' = {r \in user_accesses : r[1] # user_id}
            /\ users' = Delete(users, user_id)
            /\ db_call' = DbResult("delete_user", "ok",
                               Cardinality({r \in user_accesses : r[1] = user_id}))
    /\ UNCHANGED <<accesses, next_user_id, next_access_id, validatorVars, chatVars>>

\* AccessService.create_access -> AccessRepository.create
create_access(name) ==
    /\ next_access_id <= MaxIds
    /\ IF get_by_name(accesses, name) # {}
       THEN /\ db_call' = DbResult("create_access", "ConflictException", 0)
            /\ UNCHANGED <<accesses, next_access_id>>
       ELSE /\ accesses' = Insert(accesses, next_access_id, name)
            /\ next_access_id' = next_access_id + 1
            /\ db_call' = DbResult("create_access", "ok", 0)
    /\ UNCHANGED <<users, user_accesses, next_user_id, validatorVars, chatVars>>

\* AccessService.delete_access -> AccessRepository.delete
delete_access(access_id) ==
    /\ IF access_id \notin DOMAIN accesses
       THEN /\ db_call' = DbResult("delete_access", "NotFoundException", 0)
            /\ UNCHANGED <<accesses, user_accesses>>
       ELSE /\ user_accesses' = {r \in user_accesses : r[2] # access_id}
            /\ accesses' = Delete(accesses, access_id)
            /\ db_call' = DbResult("delete_access", "ok",
                               Cardinality({r \in user_accesses : r[2] = access_id}))
    /\ UNCHANGED <<users, next_user_id, next_access_id, validatorVars, chatVars>>

\* AccessRepository.assign_access_to_user
assign_access_to_user(user_id, access_id) ==
    IF <<user_id, access_id>> \in user_accesses
    THEN /\ db_call' = DbResult("request_user_access", "ConflictException", 0)
         /\ UNCHANGED user_accesses
    ELSE /\ user_accesses' = user_accesses \cup {<<user_id, access_id>>}
         /\ db_call' = DbResult("request_user_access", "ok", 0)

\* AccessService.request_user_access
request_user_access(user_id, access_name) ==
    /\ IF user_id \notin DOMAIN users
       THEN /\ db_call' = DbResult("request_user_access", "NotFoundException", 0)
            /\ UNCHANGED user_accesses
       ELSE IF get_by_name(accesses, access_name) = {}
       THEN /\ db_call' = DbResult("request_user_access", "NotFoundException", 0)
            /\ UNCHANGED user_accesses
       ELSE assign_access_to_user(user_id,
                CHOOSE a \in get_by_name(accesses, access_name) : TRUE)
    /\ UNCHANGED <<users, accesses, next_user_id, next_access_id, validatorVars, chatVars>>

\* AccessService.remove_user_access -> AccessRepository.remove_access_from_user
remove_user_access(user_id, access_id) ==
    /\ IF \/ user_id \notin DOMAIN users
          \/ access_id \notin DOMAIN accesses
          \/ <<user_id, access_id>> \notin user_accesses
       THEN /\ db_call' = DbResult("remove_user_access", "NotFoundException", 0)
            /\ UNCHANGED user_accesses
       ELSE /\ user_accesses' = user_accesses \ {<<user_id, access_id>>}
            /\ db_call' = DbResult("remove_user_access", "ok", 1)
    /\ UNCHANGED <<users, accesses, next_user_id, next_access_id, validatorVars, chatVars>>

NextAccess ==
    \/ \E n \in Usernames : create_user(n)
    \/ \E u \in Ids : delete_user(u)
    \/ \E n \in AccessNames : create_access(n)
    \/ \E a \in Ids : delete_access(a)
    \/ \E u \in Ids, n \in AccessNames : request_user_access(u, n)
    \/ \E u \in Ids, a \in Ids : remove_user_access(u, a)

SpecAccess == Init /\ [][NextAccess]_vars

(***************************************************************************)
(* ChatHistoryService: the ephemeral conversation store.  A conversation   *)
(* id is a uuid4, modelled as a number that is never drawn twice; a        *)
(* message is its role with the number of its text, 0 for the welcome      *)
(* text; an agent reply carries the number of the text it answers.         *)
(***************************************************************************)
UserIds == {1, 2}
ConversationIds == 1..MaxConversations

ChatMessage(role, msg) == [role |-> role, msg |-> msg]

\* the welcome message create_conversation builds
welcome_message == ChatMessage("AGENT", 0)

\* a ConversationHistory.add_message that leaves message_count as it was
add_message_stale_count(conversation, message) ==
    [conversation EXCEPT !.messages = Append(@, message)]

\* ConversationHistory.add_message
add_message(conversation, message) ==
    [conversation EXCEPT !.messages = Append(@, message),
                         !.message_count = Len(Append(conversation.messages, message))]

\* the store after self._conversations[conversation_id] = conversation
StoreNew(store, conversation_id, user_id) ==
    [c \in DOMAIN store \cup {conversation_id} |->
        IF c = conversation_id
        THEN [user_id |-> user_id, messages |-> <<welcome_message>>, message_count |-> 1]
        ELSE store[c]]

\* the store after conversation.add_message(message) on a stored conversation
StoreAdd(store, conversation_id, message) ==
    [store EXCEPT ![conversation_id] = add_message(@, message)]

\* the store after del self._conversations[conv_id] for the ids in gone
StoreDel(store, gone) == [c \in DOMAIN store \ gone |-> store[c]]

\* the variables outside the chat history store
restVars == <<validatorVars, dbVars>>

SvcResult(op, conversation_id, result) ==
    [op |-> op, conversation_id |-> conversation_id, result |-> result]

\* ChatHistoryService.create_conversation(user_id, username)
create_conversation(user_id) ==
    /\ next_conversation_id <= MaxConversations
    /\ conversations' = StoreNew(conversations, next_conversation_id, user_id)
    /\ next_conversation_id' = next_conversation_id + 1
    /\ svc_call' = SvcResult("create_conversation", next_conversation_id, "conversation")
    /\ UNCHANGED <<next_message, requests, restVars>>

\* ChatHistoryService.add_user_message(conversation_id, content)
add_user_message(conversation_id) ==
    /\ next_message <= MaxMessages
    /\ IF conversation_id \notin DOMAIN conversations
       THEN /\ svc_call' = SvcResult("add_user_message", conversation_id, "None")
            /\ UNCHANGED <<conversations, next_message>>
       ELSE /\ conversations' = StoreAdd(conversations, conversation_id,
                                    ChatMessage("USER", next_message))
            /\ next_message' = next_message + 1
            /\ svc_call' = SvcResult("add_user_message", conversation_id, "message")
    /\ UNCHANGED <<next_conversation_id, requests, restVars>>

\* ChatHistoryService.add_agent_message(conversation_id, content)
add_agent_message(conversation_id) ==
    /\ next_message <= MaxMessages
    /\ IF conversation_id \notin DOMAIN conversations
       THEN /\ svc_call' = SvcResult("add_agent_message", conversation_id, "None")
            /\ UNCHANGED <<conversations, next_message>>
       ELSE /\ conversations' = StoreAdd(conversations, conversation_id,
                                    ChatMessage("AGENT", next_message))
            /\ next_message' = next_message + 1
            /\ svc_call' = SvcResult("add_agent_message", conversation_id, "message")
    /\ UNCHANGED <<next_conversation_id, requests, restVars>>

\* ChatHistoryService.cleanup_conversation(conversation_id)
cleanup_conversation(conversation_id) ==
    /\ IF conversation_id \in DOMAIN conversations
       THEN /\ conversations' = StoreDel(conversations, {conversation_id})
            /\ svc_call' = SvcResult("cleanup_conversation", conversation_id, "True")
       ELSE /\ svc_call' = SvcResult("cleanup_conversation", conversation_id, "False")
            /\ UNCHANGED conversations
    /\ UNCHANGED <<next_conversation_id, next_message, requests, restVars>>

\* ChatHistoryService.cleanup_all_user_conversations(user_id)
cleanup_all_user_conversations(user_id) ==
    LET conversation_ids_to_delete ==
            {c \in DOMAIN conversations : conversations[c].user_id = user_id}
    IN  /\ conversations' = StoreDel(conversations, conversation_ids_to_delete)
        /\ svc_call' = SvcResult("cleanup_all_user_conversations", 0,
                            IF conversation_ids_to_delete = {} THEN "0" ELSE "some")
        /\ UNCHANGED <<next_conversation_id, next_message, requests, restVars>>

NextHistory ==
    \/ \E u \in UserIds : create_conversation(u)
    \/ \E c \in ConversationIds : add_user_message(c)
    \/ \E c \in ConversationIds : add_agent_message(c)
    \/ \E c \in ConversationIds : cleanup_conversation(c)
    \/ \E u \in UserIds : cleanup_all_user_conversations(u)

SpecHistory == Init /\ [][NextHistory]_vars

(***************************************************************************)
(* SpecChat: the /chat endpoints, served by coroutines on one event loop.  *)
(* A handler runs without interruption from one await to the next; at an   *)
(* await any other handler may run.  Each action below is one such         *)
(* stretch of a handler.                                                   *)
(***************************************************************************)
Endpoints == {"init", "message", "history", "conversation", "status"}

\* who sends a request: an authenticated user, or 0 for nobody
Requesters == {0} \cup UserIds

\* the handler ends with an HTTP status and a response body
Respond(request, status, body) ==
    [request EXCEPT !.pc = "responded", !.status = status, !.body = body]

\* what the handlers, /chat/init apart, leave alone
handlerFrame == <<next_conversation_id, svc_call, restVars>>

\* a request arrives and its handler starts; the conversation id it names
\* is one that /chat/init has handed out
Receive(r, e, u, c) ==
    /\ requests[r].pc = "idle"
    /\ e = "init" => c = 0
    /\ e # "init" => (c \in ConversationIds /\ c < next_conversation_id)
    /\ e = "message" => next_message <= MaxMessages
    /\ requests' = [requests EXCEPT ![r] =
           [IdleRequest EXCEPT !.endpoint = e, !.pc = "handler", !.requester = u,
                               !.conversation_id = c,
                               !.message = IF e = "message" THEN next_message ELSE 0]]
    /\ next_message' = IF e = "message" THEN next_message + 1 ELSE next_message
    /\ UNCHANGED <<conversations, handlerFrame>>

\* POST /chat/init
initialize_chat(r) ==
    /\ requests[r].pc = "handler" /\ requests[r].endpoint = "init"
    /\ IF requests[r].requester = 0
       THEN /\ requests' = [requests EXCEPT ![r] = Respond(@, 401, "none")]
            /\ UNCHANGED <<conversations, next_conversation_id>>
       ELSE /\ next_conversation_id <= MaxConversations
            /\ conversations' = StoreNew(conversations, next_conversation_id,
                                    requests[r].requester)
            /\ next_conversation_id' = next_conversation_id + 1
            /\ requests' = [requests EXCEPT ![r] =
                   Respond([@ EXCEPT !.conversation_id = next_conversation_id,
                                     !.owner = requests[r].requester],
                           200, "welcome_message")]
    /\ UNCHANGED <<next_message, svc_call, restVars>>

\* conversation = chat_history_service.get_conversation(conversation_id),
\* 404 when there is none, up to the await of the user context
get_conversation(r) ==
    /\ requests[r].pc = "handler"
    /\ requests[r].endpoint \in {"message", "history", "conversation"}
    /\ requests' = [requests EXCEPT ![r] =
           IF requests[r].conversation_id \notin DOMAIN conversations
           THEN Respond(@, 404, "none")
           ELSE [@ EXCEPT !.pc = "user_context",
                          !.owner = conversations[requests[r].conversation_id].user_id]]
    /\ UNCHANGED <<conversations, next_message, handlerFrame>>

\* POST /chat/message from the user context to the await of the agent:
\* 401, 403, add_user_message (500 when it returns None)
send_message(r) ==
    /\ requests[r].pc = "user_context" /\ requests[r].endpoint = "message"
    /\ IF requests[r].requester = 0
       THEN /\ requests' = [requests EXCEPT ![r] = Respond(@, 401, "none")]
            /\ UNCHANGED conversations
       ELSE IF requests[r].owner # requests[r].requester
       THEN /\ requests' = [requests EXCEPT ![r] = Respond(@, 403, "none")]
            /\ UNCHANGED conversations
       ELSE IF requests[r].conversation_id \notin DOMAIN conversations
       THEN /\ requests' = [requests EXCEPT ![r] = Respond(@, 500, "none")]
            /\ UNCHANGED conversations
       ELSE /\ conversations' = StoreAdd(conversations, requests[r].conversation_id,
                                    ChatMessage("USER", requests[r].message))
            /\ requests' = [requests EXCEPT ![r] = [@ EXCEPT !.pc = "agent"]]
    /\ UNCHANGED <<next_message, handlerFrame>>

\* POST /chat/message after the agent answered: add_agent_message (None is
\* only logged), return ChatResponse
send_message_reply(r) ==
    /\ requests[r].pc = "agent"
    /\ IF requests[r].conversation_id \notin DOMAIN conversations
       THEN /\ requests' = [requests EXCEPT ![r] = Respond(@, 200, "agent_response")]
            /\ UNCHANGED conversations
       ELSE /\ conversations' = StoreAdd(conversations, requests[r].conversation_id,
                                    ChatMessage("AGENT", requests[r].message))
            /\ requests' = [requests EXCEPT ![r] = Respond(@, 200, "agent_response")]
    /\ UNCHANGED <<next_message, handlerFrame>>

\* GET /chat/history/{conversation_id} from the user context on: the 403 is
\* raised inside the try and leaves as a 401
get_conversation_history(r) ==
    /\ requests[r].pc = "user_context" /\ requests[r].endpoint = "history"
    /\ requests' = [requests EXCEPT ![r] =
           IF requests[r].requester = 0 \/ requests[r].owner # requests[r].requester
           THEN Respond(@, 401, "none")
           ELSE Respond(@, 200, "messages")]
    /\ UNCHANGED <<conversations, next_message, handlerFrame>>

\* DELETE /chat/conversation/{conversation_id} from the user context on
end_conversation(r) ==
    /\ requests[r].pc = "user_context" /\ requests[r].endpoint = "conversation"
    /\ IF requests[r].requester = 0 \/ requests[r].owner # requests[r].requester
       THEN /\ requests' = [requests EXCEPT ![r] = Respond(@, 401, "none")]
            /\ UNCHANGED conversations
       ELSE /\ conversations' = StoreDel(conversations, {requests[r].conversation_id})
            /\ requests' = [requests EXCEPT ![r] = Respond(@, 200, "ended")]
    /\ UNCHANGED <<next_message, handlerFrame>>

\* GET /chat/status/{conversation_id}
get_conversation_status(r) ==
    /\ requests[r].pc = "handler" /\ requests[r].endpoint = "status"
    /\ requests' = [requests EXCEPT ![r] =
           IF requests[r].conversation_id \notin DOMAIN conversations
           THEN Respond(@, 404, "none")
           ELSE Respond([@ EXCEPT !.owner =
                            conversations[requests[r].conversation_id].user_id],
                        200, "message_count")]
    /\ UNCHANGED <<conversations, next_message, handlerFrame>>

\* the response is sent; the slot takes the next request
Responded(r) ==
    /\ requests[r].pc = "responded"
    /\ requests' = [requests EXCEPT ![r] = IdleRequest]
    /\ UNCHANGED <<conversations, next_message, handlerFrame>>

NextChat ==
    \/ \E r \in Requests, e \in Endpoints, u \in Requesters,
          c \in {0} \cup ConversationIds : Receive(r, e, u, c)
    \/ \E r \in Requests : initialize_chat(r)
    \/ \E r \in Requests : get_conversation(r)
    \/ \E r \in Requests : send_message(r)
    \/ \E r \in Requests : send_message_reply(r)
    \/ \E r \in Requests : get_conversation_history(r)
    \/ \E r \in Requests : end_conversation(r)
    \/ \E r \in Requests : get_conversation_status(r)
    \/ \E r \in Requests : Responded(r)

\* the service starts with the default validator: sqlglot, strict mode
InitChat == Init /\ sqlglot_available /\ strict_mode

SpecChat == InitChat /\ [][NextChat]_vars

(***************************************************************************)
(* Properties of SafeQueryValidator.validate on the AST path (Spec)        *)
(***************************************************************************)
RECURSIVE TreeSize(_), ForestSize(_, _)
ForestSize(kids, i) ==
    IF i > Len(kids) THEN 0 ELSE TreeSize(kids[i]) + ForestSize(kids, i + 1)

\* number of nodes of a tree
TreeSize(n) == 1 + ForestSize(n.kids, 1)

RECURSIVE Nodes(_)
\* the nodes of a tree, the root included
Nodes(n) == {n} \cup UNION {Nodes(n.kids[i]) : i \in 1..Len(n.kids)}

Descendants(n) == UNION {Nodes(n.kids[i]) : i \in 1..Len(n.kids)}

RECURSIVE Depth(_)
Depth(n) ==
    IF n.kids = <<>> THEN 1
    ELSE 1 + (CHOOSE d \in {Depth(n.kids[i]) : i \in 1..Len(n.kids)} :
                 \A i \in 1..Len(n.kids) : Depth(n.kids[i]) <= d)

DangerousNode(n) == n.kind \in dangerous_types

DangerousCall(n) ==
    n.kind = "Anonymous" /\ Upper(n.this) \in DangerousOperation

\* the call went down the AST path and the parser produced a tree
OnAstPath == pc = "done" /\ sqlglot_available /\ parsed.ok

SelectRoot == parsed.tree.kind = "Select"

\* the call was decided by the lexical path
OnLexicalPath ==
    pc = "done" /\ (~sqlglot_available \/ (~parsed.ok /\ ~strict_mode))

\* C1: on the AST path, a Select root with a node of a dangerous kind
\* anywhere below it is rejected, and acceptance is reported only after the
\* traversal has visited every node of the tree.
C1_NestedDangerRejected ==
    (OnAstPath /\ SelectRoot) =>
        /\ (\E n \in Descendants(parsed.tree) : DangerousNode(n))
               => outcome.status = "Rejected"
        /\ outcome.status = "Accepted"
               => outcome.visited = TreeSize(parsed.tree)

\* a Delete that is the later sibling of a clean subtree has been rejected
C1_Witness ==
    /\ OnAstPath /\ SelectRoot
    /\ Len(parsed.tree.kids) = 2
    /\ parsed.tree.kids[1].kind = "Subquery"
    /\ parsed.tree.kids[2].kind = "Delete"
    /\ outcome.status = "Rejected"
    /\ outcome.category = "dangerous-operation"
    /\ outcome.found = "Delete"

\* a semicolon followed by anything but whitespace
SemicolonThenContent(q) ==
    \E i \in 1..Len(q) :
        q[i] = ";" /\ \E j \in (i + 1)..Len(q) : ~IsSpace(q[j])

\* C2: every query holding a semicolon followed by further non-whitespace
\* content is rejected, whichever path handled the call.
C2_MultiStatementRejected ==
    (pc = "done" /\ SemicolonThenContent(query)) => outcome.status = "Rejected"

\* C6: on the AST path, a Select root with no dangerous node kind and no
\* dangerously named anonymous call below it is accepted, however deep.
C6_CleanSelectAccepted ==
    (/\ OnAstPath /\ SelectRoot
     /\ \A n \in Nodes(parsed.tree) : ~DangerousNode(n) /\ ~DangerousCall(n))
        => outcome.status = "Accepted"

\* a clean Select nested as deep as the bound allows has been accepted
C6_Witness ==
    /\ OnAstPath /\ SelectRoot
    /\ Depth(parsed.tree) = MaxNodes
    /\ \A n \in Nodes(parsed.tree) : ~DangerousNode(n) /\ ~DangerousCall(n)
    /\ \E n \in Nodes(parsed.tree) : n.kind = "Anonymous"
    /\ outcome.status = "Accepted"

FirstTokenIsSelect(q) == get_first_keyword(Strip(q)) = <<"SELECT">>

CleanWithQuery ==
    /\ input.stmt.kind = "Select"
    /\ input.stmt.kids # <<>>
    /\ input.stmt.kids[1].kind = "With"
    /\ input.stmt.kids[1].kids # <<>>
    /\ \A i \in 1..Len(input.stmt.kids[1].kids) :
           input.stmt.kids[1].kids[i].kind = "Select"
    /\ \A n \in Descendants(input.stmt) : n.kind \in {"Select", "With", "Subquery"}
    /\ input.tail = <<>>
    /\ ~input.bad

\* C9: a WITH query whose CTE bodies and final statement are clean SELECTs is
\* accepted, whichever path handled the call.
C9_WithQueryAccepted ==
    (pc = "done" /\ CleanWithQuery) => outcome.status = "Accepted"

Recase(c, style) ==
    CASE style = "upper" -> Upper(c)
      [] style = "lower" -> Lower(c)
      [] OTHER ->
            CASE Upper(c) = "SELECT" -> "SeLeCt"
              [] Upper(c) = "DROP"   -> "DrOp"
              [] Upper(c) = "DELETE" -> "DeLeTe"
              [] OTHER               -> Lower(c)

CaseStyles == {"upper", "lower", "mixed"}

RecaseStr(s, style) == [k \in 1..Len(s) |-> Recase(s[k], style)]

RECURSIVE RecaseTree(_, _)
\* the tree of the recased text: the parser reads keywords in any case and
\* keeps a function's name as it is written
RecaseTree(n, style) ==
    Node(n.kind, Recase(n.this, style),
         [k \in 1..Len(n.kids) |-> RecaseTree(n.kids[k], style)])

RecaseInput(i, style) ==
    [i EXCEPT !.stmt = RecaseTree(i.stmt, style),
              !.tail = RecaseStr(i.tail, style)]

\* C17: the outcome does not depend on letter case: a query and the same
\* query written in upper, lower or mixed case get the same accept/reject
\* result and the same rejection reason.
C17_CaseInsensitive ==
    pc = "done" =>
        \A style \in CaseStyles :
            LET v == validate(RecaseStr(query, style),
                              parse_one(RecaseInput(input, style)))
            IN  /\ v.status = outcome.status
                /\ v.category = outcome.category
                /\ v.found = outcome.found

\* the lexical path has refused a DELETE whose text changes under recasing
C17_Witness ==
    /\ OnLexicalPath
    /\ \E k \in 1..Len(query) : query[k] = "DELETE"
    /\ RecaseStr(query, "mixed") # query
    /\ RecaseStr(query, "lower") # query
    /\ outcome.status = "Rejected"
    /\ outcome.category = "dangerous-operation"
    /\ outcome.found = "DELETE"

\* C18: with sqlglot installed and the parse failed, a strict validator
\* rejects with the parse-error reason carrying the parser's error and never
\* consults the lexical path, and a non-strict validator returns exactly the
\* outcome of the lexical path on the same text; the lexical path runs in
\* these non-strict fallbacks and where sqlglot is missing, nowhere else,
\* and at most once in a call.
C18_ParseFailureHandling ==
    (pc = "done" /\ Strip(query) # <<>>) =>
        /\ (sqlglot_available /\ ~parsed.ok /\ strict_mode) =>
               /\ outcome.status = "Rejected"
               /\ outcome.category = "parse-error"
               /\ outcome.found = "ParseError"
               /\ outcome.regex_runs = 0
        /\ (sqlglot_available /\ ~parsed.ok /\ ~strict_mode) =>
               outcome = validate_with_regex(Strip(query))
        /\ outcome.regex_runs = (IF OnLexicalPath THEN 1 ELSE 0)

\* a non-strict validator has accepted, on the word of the lexical path, a
\* text the parser could not read
C18_Witness ==
    /\ pc = "done"
    /\ sqlglot_available /\ ~strict_mode
    /\ ~parsed.ok
    /\ outcome.regex_runs = 1
    /\ outcome.status = "Accepted"

\* C21: validate_and_explain never raises QueryValidationError; it returns
\* (True, None) exactly when validate accepts the query, and False with a
\* non-empty message exactly when validate rejects it.
C21_ExplainMirrorsValidate ==
    (api = "validate_and_explain" /\ pc # "idle") =>
        /\ pc = "done"
        /\ outcome.status \in {"Accepted", "Rejected"}
        /\ outcome.status = "Accepted"
               <=> explanation = [is_valid |-> TRUE, error_message |-> "None"]
        /\ outcome.status = "Rejected"
               <=> /\ explanation.is_valid = FALSE
                   /\ explanation.error_message \notin {"", "None", "no-call"}

\* validate_and_explain has returned False and a message for a DELETE
C21_Witness ==
    /\ api = "validate_and_explain"
    /\ pc = "done"
    /\ query # <<>> /\ query[1] = "DELETE"
    /\ outcome.status = "Rejected"
    /\ explanation.is_valid = FALSE
    /\ explanation.error_message # "None"

\* the names, upper-cased, of the dangerously named anonymous calls of a tree
DangerousCallNames(t) == {Upper(n.this) : n \in {m \in Nodes(t) : DangerousCall(m)}}

C3_ExecuteOnlyAfterAccept ==
    /\ executed # <<>> => outcome.status = "Accepted"
    /\ pc = "validated" => outcome.status = "Accepted"
    /\ outcome.status = "Rejected" =>
           executed = <<>> /\ pc = "raised_validation"
    /\ pc = "raised_validation" => outcome.status = "Rejected"

\* a rejected request has left execute_safe_query with nothing executed
C3_Witness ==
    /\ api = "execute_safe_query"
    /\ pc = "raised_validation"
    /\ outcome.status = "Rejected"
    /\ executed = <<>>

\* the tables a request names
ReferencedTables == {input.refs[k].name : k \in 1..Len(input.refs)}

\* C5: a request that references a table outside the allow-list, in any
\* FROM or JOIN position and however the name is written, is rejected with
\* the forbidden-table reason.
C5_ForbiddenTableRejected ==
    (/\ api = "analytics_execute_query"
     /\ pc \notin {"idle", "called"}
     /\ ReferencedTables \ ALLOWED_TABLES # {})
        => outcome.status = "Rejected" /\ outcome.category = "forbidden-table"

\* the analytics request has been through validate_query
AnalyticsDecided ==
    api = "analytics_execute_query" /\ pc \notin {"idle", "called"}

\* some blacklisted keyword occurs in the text as a word of its own
BlacklistedKeywordIn(q) ==
    \E k \in 1..Len(DANGEROUS_KEYWORDS) :
        KeywordSearch(UpperStr(q), DANGEROUS_KEYWORDS[k])

\* C11 as stated: validate_query rejects every query holding "--", "/*" or
\* "*/", and the reason it reports is forbidden-comment, also when a
\* blacklisted keyword stands inside the comment.
C11_CommentReasonAlways ==
    (AnalyticsDecided /\ HasCommentSyntax(query)) =>
        outcome.status = "Rejected" /\ outcome.category = "forbidden-comment"

\* C11 amended: validate_query rejects every query holding "--", "/*" or
\* "*/"; the reason is forbidden-comment when no blacklisted keyword occurs
\* in the text, and forbidden-keyword, naming the first matching entry of
\* the blacklist, when one occurs anywhere, inside the comment included.
C11_Amended ==
    (AnalyticsDecided /\ HasCommentSyntax(query)) =>
        /\ outcome.status = "Rejected"
        /\ IF BlacklistedKeywordIn(query)
           THEN /\ outcome.category = "forbidden-keyword"
                /\ KeywordSearch(UpperStr(query), outcome.found)
           ELSE outcome.category = "forbidden-comment"

\* SELECT ... -- DELETE has been refused for its keyword, and a query with
\* a comment was never executed
C11_Witness ==
    /\ AnalyticsDecided
    /\ HasCommentSyntax(query)
    /\ BlacklistedKeywordIn(query)
    /\ ReferencedTables \subseteq ALLOWED_TABLES
    /\ outcome.status = "Rejected"
    /\ outcome.category = "forbidden-keyword"
    /\ outcome.found = "DELETE"
    /\ pc = "raised_validation"

\* the statement the analytics request handed to the database
Sent == executed[Len(executed)]

AnalyticsSent == api = "analytics_execute_query" /\ executed # <<>>

\* the statement ends with a LIMIT clause
EndsWithLimitClause(stmt) ==
    Len(stmt) >= 3 /\ (Len(stmt) - 2) \in LimitClauses(stmt)

\* the text holds LIMIT as a keyword, a word of its own
HasLimitKeyword(q) ==
    \E i \in 1..Len(q) :
        /\ Upper(q[i]) = "LIMIT"
        /\ (i = 1 \/ ~IsWord(q[i - 1]))
        /\ (i = Len(q) \/ ~IsWord(q[i + 1]))

\* C12: for every accepted query and every row limit, the statement sent to
\* the database ends with exactly one LIMIT clause and has no trailing
\* semicolon.
C12_SentEndsWithOneLimit ==
    AnalyticsSent =>
        /\ EndsWithLimitClause(Sent)
        /\ Cardinality(LimitClauses(Sent)) = 1
        /\ Sent[Len(Sent)] # ";"

\* str.strip() and the removal of one trailing semicolon
TrimmedQuery(q) ==
    IF Strip(q) # <<>> /\ Strip(q)[Len(Strip(q))] = ";"
    THEN SubSeq(Strip(q), 1, Len(Strip(q)) - 1)
    ELSE Strip(q)

\* C13: when the accepted text holds a LIMIT keyword the statement sent is
\* the trimmed text less its trailing semicolon; when it holds none, the
\* statement sent is that text followed by " LIMIT <request.limit>".
C13_LimitKeptOrAppended ==
    AnalyticsSent =>
        Sent = IF HasLimitKeyword(query)
               THEN TrimmedQuery(query)
               ELSE TrimmedQuery(query) \o <<" ", "LIMIT", " ", NumberText(limit)>>

\* C14: the response to an accepted request never holds more rows than
\* request.limit, whatever the query text.
C14_RowsWithinLimit ==
    (api = "analytics_execute_query" /\ pc = "returned") => row_count <= limit

\* C22 as stated: validate_query rejects every query with more than one
\* semicolon or with a semicolon that is not its final character, and the
\* statement sent for an accepted query holds no semicolon.
C22_SemicolonOnlyLast ==
    /\ (/\ AnalyticsDecided
        /\ \/ CountSemicolons(query) > 1
           \/ \E k \in 1..(Len(query) - 1) : query[k] = ";")
           => outcome.status = "Rejected"
    /\ AnalyticsSent => CountSemicolons(Sent) = 0

\* C22 amended: validate_query rejects every query with more than one
\* semicolon or with a semicolon followed by anything but whitespace; one
\* semicolon followed only by trailing whitespace is tolerated; and the
\* statement sent for an accepted query holds no semicolon.
C22_Amended ==
    /\ (/\ AnalyticsDecided
        /\ \/ CountSemicolons(query) > 1
           \/ SemicolonThenContent(query))
           => outcome.status = "Rejected"
    /\ AnalyticsSent => CountSemicolons(Sent) = 0

\* a query whose semicolon is followed by whitespace went to the database
\* without it
C22_Witness ==
    /\ AnalyticsSent
    /\ \E k \in 1..(Len(query) - 1) : query[k] = ";"
    /\ outcome.status = "Accepted"
    /\ CountSemicolons(Sent) = 0

\* the SQL keyword of a dangerous node kind; Command stands for no one keyword
KindKeyword(kind) ==
    CASE kind = "Insert" -> "INSERT"     [] kind = "Update" -> "UPDATE"
      [] kind = "Delete" -> "DELETE"     [] kind = "Drop" -> "DROP"
      [] kind = "Create" -> "CREATE"     [] kind = "Alter" -> "ALTER"
      [] kind = "Merge" -> "MERGE"       [] kind = "Truncate" -> "TRUNCATE"
      [] kind = "Grant" -> "GRANT"       [] kind = "Revoke" -> "REVOKE"
      [] OTHER -> "none"

\* C19: the guards block one keyword taxonomy: the keyword of every
\* dangerous node kind is in the lexical path's keyword set, that set is
\* DangerousOperation, and whatever keyword of DangerousOperation a query
\* holds as a word, the allow-list guard rejects the query for it as the
\* lexical path would.
C19_SharedTaxonomy ==
    /\ \A kind \in dangerous_types \ {"Command"} :
           KindKeyword(kind) \in dangerous_keywords
    /\ dangerous_keywords = DangerousOperation
    /\ (AnalyticsDecided /\ DangerousMatches(query) # {}) =>
           /\ outcome.status = "Rejected"
           /\ outcome.category = "forbidden-keyword"

(***************************************************************************)
(* Properties of the lexical path (SpecLex)                                *)
(***************************************************************************)
\* C15: validate rejects the empty string and every all-whitespace string
\* with the empty-query reason, before the parser or the lexical path is
\* tried (no node visited, no run of the lexical path), with the same
\* outcome whether sqlglot is installed or not; no other text gets that
\* reason.
C15_BlankRejectedFirst ==
    pc = "done" =>
        /\ Strip(query) = <<>> => outcome = Rejected("empty-query", "")
        /\ outcome.category = "empty-query" => Strip(query) = <<>>

\* an all-whitespace text has been refused where sqlglot is installed
C15_Witness ==
    /\ pc = "done"
    /\ sqlglot_available
    /\ Len(query) >= 2
    /\ Strip(query) = <<>>
    /\ outcome.status = "Rejected"
    /\ outcome.category = "empty-query"
    /\ outcome.regex_runs = 0

RECURSIVE LexerStrip(_, _, _)
\* The text with its comments removed as a SQL lexer removes them: inside a
\* quoted string literal "--" and "/*" are literal text, and inside a
\* /* ... */ block "--" is part of the block.
LexerStrip(s, i, mode) ==
    IF i > Len(s) THEN <<>>
    ELSE CASE mode = "string" ->
                <<s[i]>> \o LexerStrip(s, i + 1, IF s[i] = "'" THEN "code" ELSE "string")
           [] mode = "line" ->
                IF s[i] = "\n" THEN <<s[i]>> \o LexerStrip(s, i + 1, "code")
                ELSE LexerStrip(s, i + 1, "line")
           [] mode = "block" ->
                IF s[i] = "*" /\ i < Len(s) /\ s[i + 1] = "/"
                THEN LexerStrip(s, i + 2, "code")
                ELSE LexerStrip(s, i + 1, "block")
           [] OTHER ->
                IF s[i] = "'" THEN <<s[i]>> \o LexerStrip(s, i + 1, "string")
                ELSE IF s[i] = "-" /\ i < Len(s) /\ s[i + 1] = "-"
                THEN LexerStrip(s, i + 2, "line")
                ELSE IF s[i] = "/" /\ i < Len(s) /\ s[i + 1] = "*"
                THEN LexerStrip(s, i + 2, "block")
                ELSE <<s[i]>> \o LexerStrip(s, i + 1, "code")

RECURSIVE LexerEndMode(_, _, _)
\* the lexer's mode at the end of the text
LexerEndMode(s, i, mode) ==
    IF i > Len(s) THEN mode
    ELSE CASE mode = "string" ->
                LexerEndMode(s, i + 1, IF s[i] = "'" THEN "code" ELSE "string")
           [] mode = "line" ->
                LexerEndMode(s, i + 1, IF s[i] = "\n" THEN "code" ELSE "line")
           [] mode = "block" ->
                IF s[i] = "*" /\ i < Len(s) /\ s[i + 1] = "/"
                THEN LexerEndMode(s, i + 2, "code")
                ELSE LexerEndMode(s, i + 1, "block")
           [] OTHER ->
                IF s[i] = "'" THEN LexerEndMode(s, i + 1, "string")
                ELSE IF s[i] = "-" /\ i < Len(s) /\ s[i + 1] = "-"
                THEN LexerEndMode(s, i + 2, "line")
                ELSE IF s[i] = "/" /\ i < Len(s) /\ s[i + 1] = "*"
                THEN LexerEndMode(s, i + 2, "block")
                ELSE LexerEndMode(s, i + 1, "code")

\* the database can lex the text: no string or block comment is left open
Lexable(q) == LexerEndMode(q, 1, "code") \in {"code", "line"}

ExecutedText(q) == LexerStrip(q, 1, "code")

\* C4: the lexical path fails closed: when the text the database would
\* execute holds a dangerous keyword, or a semicolon followed by further
\* content (a word after optional whitespace, the pattern the guard itself
\* takes for a second statement), the lexical path rejects the query.
C4_LexicalFailsClosed ==
    (/\ pc = "done"
     /\ Lexable(query)
     /\ \/ DangerousMatches(ExecutedText(query)) # {}
        \/ multi_statement_search(ExecutedText(query)))
        => outcome.status = "Rejected"

\* the lexical path accepts the text q
LexicalAccepts(q) == validate_with_regex(Strip(q)).status = "Accepted"

\* positions where a text reads " -- " and no newline follows
TrailingCommentStarts(q) ==
    {p \in 1..(Len(q) - 3) :
        /\ q[p] = " " /\ q[p + 1] = "-" /\ q[p + 2] = "-" /\ q[p + 3] = " "
        /\ \A k \in (p + 4)..Len(q) : q[k] # "\n"}

\* the text begins with a "-- ..." line: the position of its newline
LeadingLineEnd(q) ==
    IF Len(q) >= 3 /\ q[1] = "-" /\ q[2] = "-"
       /\ \E k \in 3..Len(q) : q[k] = "\n"
    THEN Min({k \in 3..Len(q) : q[k] = "\n"})
    ELSE 0

\* the text begins with a terminated "/* ... */" block: where its "*/" starts
LeadingBlockEnd(q) ==
    IF Len(q) >= 4 /\ q[1] = "/" /\ q[2] = "*" /\ BlockEnds(q, 1) # {}
    THEN Min(BlockEnds(q, 1))
    ELSE 0

\* C10: a comment never causes rejection in the lexical path: when q is
\* accepted, so is q followed by " -- " and text without a newline, and so
\* is q preceded by a "-- ..." line or by a terminated "/* ... */" block,
\* whatever the comment holds.
C10_CommentsNeverReject ==
    (pc = "done" /\ ~sqlglot_available) =>
        /\ \A p \in TrailingCommentStarts(query) :
               LexicalAccepts(SubSeq(query, 1, p - 1))
                   => outcome.status = "Accepted"
        /\ (LeadingLineEnd(query) > 0
            /\ LexicalAccepts(SubSeq(query, LeadingLineEnd(query) + 1, Len(query))))
               => outcome.status = "Accepted"
        /\ (LeadingBlockEnd(query) > 0
            /\ LexicalAccepts(SubSeq(query, LeadingBlockEnd(query) + 2, Len(query))))
               => outcome.status = "Accepted"

\* the text has one semicolon, and in the text the database executes nothing
\* but whitespace follows it: it stands last, or before whitespace or comments
SingleTrailingSemicolon(q) ==
    /\ CountSemicolons(q) = 1
    /\ Lexable(q)
    /\ CountSemicolons(ExecutedText(q)) = 1
    /\ ~SemicolonThenContent(ExecutedText(q))

\* C20: in the lexical path a query whose only semicolon is its last
\* character, or is followed only by whitespace or by a comment, is not
\* rejected as multi-statement; and a query that is accepted is accepted
\* with a semicolon put at its end: "SELECT x;" is accepted.
C20_TrailingSemicolonTolerated ==
    (pc = "done" /\ ~sqlglot_available) =>
        /\ SingleTrailingSemicolon(query)
               => outcome.category # "multi-statement"
        /\ (/\ CountSemicolons(query) = 1
            /\ query[Len(query)] = ";"
            /\ LexicalAccepts(SubSeq(query, 1, Len(query) - 1)))
               => outcome.status = "Accepted"
        /\ query = <<"SELECT", " ", "x", ";">> => outcome.status = "Accepted"

\* a SELECT whose semicolon is followed by a comment only has been accepted
C20_Witness ==
    /\ pc = "done" /\ ~sqlglot_available
    /\ SingleTrailingSemicolon(query)
    /\ \E p \in 2..(Len(query) - 2) :
           query[p] = ";" /\ query[p + 1] = "-" /\ query[p + 2] = "-"
    /\ query[Len(query)] = "x"
    /\ outcome.status = "Accepted"

\* the text the lexical path runs its checks on
StrippedText == remove_sql_comments(Strip(query))

\* positions of the keywords of DangerousOperation in a text, as words of
\* their own or inside longer words
KeywordOccurrences(s) == {k \in 1..Len(s) : Upper(s[k]) \in DangerousOperation}

\* the keyword at k stands as a whole word
WholeWord(s, k) ==
    /\ (k = 1 \/ ~IsWord(s[k - 1]))
    /\ (k = Len(s) \/ ~IsWord(s[k + 1]))

\* C24: in the lexical path a DangerousOperation keyword that stands as a
\* whole word anywhere in the comment-stripped text gets the query rejected,
\* inside a string literal as well; a keyword that occurs only as a part of
\* a longer word causes no rejection as a dangerous operation.
C24_WholeWordKeyword ==
    (pc = "done" /\ ~sqlglot_available /\ Strip(query) # <<>>) =>
        /\ (\E k \in KeywordOccurrences(StrippedText) : WholeWord(StrippedText, k))
               => /\ outcome.status = "Rejected"
                  /\ outcome.category \in {"multi-statement", "dangerous-operation"}
        /\ (\A k \in KeywordOccurrences(StrippedText) : ~WholeWord(StrippedText, k))
               => outcome.category # "dangerous-operation"
        /\ (/\ \A k \in KeywordOccurrences(StrippedText) : ~WholeWord(StrippedText, k)
            /\ LexicalAccepts([k \in 1..Len(query) |->
                    IF Upper(query[k]) \in DangerousOperation THEN "x" ELSE query[k]]))
               => outcome.status = "Accepted"

\* SELECT 'DROP': the keyword inside a string literal got the query refused
C24_Witness ==
    /\ pc = "done" /\ ~sqlglot_available
    /\ Len(query) = 4
    /\ query[1] = "SELECT" /\ query[2] = "'" /\ query[3] = "DROP" /\ query[4] = "'"
    /\ outcome.status = "Rejected"
    /\ outcome.category = "dangerous-operation"
    /\ outcome.found = "DROP"

\* C25: the lexical path runs its checks on the comment-stripped text in a
\* fixed order and reports the first that fails: a second statement, then a
\* dangerous keyword (the leftmost one), then a first token that is not
\* SELECT.  A text that is both multi-statement and dangerous is reported
\* as multi-statement, and a text that starts with a dangerous keyword is
\* reported as that dangerous operation, not as not-a-select.
C25_FixedCheckOrder ==
    (pc = "done" /\ ~sqlglot_available /\ Strip(query) # <<>>) =>
        IF multi_statement_search(StrippedText)
        THEN outcome.status = "Rejected" /\ outcome.category = "multi-statement"
        ELSE IF \E k \in KeywordOccurrences(StrippedText) : WholeWord(StrippedText, k)
        THEN /\ outcome.status = "Rejected"
             /\ outcome.category = "dangerous-operation"
             /\ outcome.found =
                    Upper(StrippedText[Min({k \in KeywordOccurrences(StrippedText) :
                                              WholeWord(StrippedText, k)})])
        ELSE IF get_first_keyword(StrippedText) # <<"SELECT">>
        THEN outcome.status = "Rejected" /\ outcome.category = "not-a-select"
        ELSE outcome.status = "Accepted"

\* a text with a second statement that is a DROP was reported as
\* multi-statement
C25_Witness ==
    /\ pc = "done" /\ ~sqlglot_available
    /\ multi_statement_search(StrippedText)
    /\ \E k \in KeywordOccurrences(StrippedText) : WholeWord(StrippedText, k)
    /\ get_first_keyword(StrippedText) # <<"SELECT">>
    /\ outcome.status = "Rejected"
    /\ outcome.category = "multi-statement"

(***************************************************************************)
(* Properties of concurrent calls on one validator (SpecConc)              *)
(***************************************************************************)
\* the threads that are inside validate
InFlight == {t \in Threads : threads[t].pc \notin {"idle", "done"}}

\* C26: calls that run concurrently on one shared validator do not
\* interfere: under every interleaving the outcome a call ends with is the
\* outcome validate gives for that call alone, and no step of a call writes
\* the validator's strict mode, keyword set or compiled patterns.
C26_NoInterference ==
    /\ [](\A t \in Threads :
            threads[t].pc = "done" =>
                threads[t].outcome =
                    validate(InputText(threads[t].input), parse_one(threads[t].input)))
    /\ [][/\ strict_mode' = strict_mode
          /\ compiled' = compiled
          /\ sqlglot_available' = sqlglot_available]_vars

\* one call has ended accepted while another call, on a different query
\* that will be rejected, is in the middle of its checks
C26_Witness ==
    \E t, u \in Threads :
        /\ threads[t].pc = "done"
        /\ threads[t].outcome.status = "Accepted"
        /\ u \in InFlight
        /\ threads[u].pc \in {"traverse", "regex"}
        /\ threads[u].input # threads[t].input
        /\ validate(InputText(threads[u].input), parse_one(threads[u].input)).status
              = "Rejected"

(***************************************************************************)
(* Properties of the user and access services (SpecAccess)                 *)
(***************************************************************************)
\* C27: after any sequence of service calls every user_accesses row refers
\* to a user that exists and an access that exists: a delete of a user or
\* an access leaves no row of it, and a row is only ever inserted for a
\* user and an access that exist.
C27_ReferentialIntegrity ==
    /\ [](\A r \in user_accesses :
            r[1] \in DOMAIN users /\ r[2] \in DOMAIN accesses)
    /\ [][\A r \in user_accesses' \ user_accesses :
              r[1] \in DOMAIN users /\ r[2] \in DOMAIN accesses]_vars

\* a user or an access that had assignments has just been deleted, while
\* assignments of others remain
C27_Witness ==
    /\ db_call.op \in {"delete_user", "delete_access"}
    /\ db_call.result = "ok"
    /\ db_call.deleted_rows > 0
    /\ user_accesses # {}

(***************************************************************************)
(* Properties of ChatHistoryService (SpecHistory)                          *)
(***************************************************************************)
\* C30: after any sequence of calls to ChatHistoryService every stored
\* conversation has message_count equal to the length of its messages, at
\* least one message, and the agent's welcome message first; an add to an
\* id that is not stored (never created, or cleaned up) returns None and
\* leaves the store as it was.
C30_HistoryWellFormed ==
    /\ [](\A c \in DOMAIN conversations :
            /\ conversations[c].message_count = Len(conversations[c].messages)
            /\ Len(conversations[c].messages) >= 1
            /\ conversations[c].messages[1] = welcome_message)
    /\ [][(/\ svc_call'.op \in {"add_user_message", "add_agent_message"}
           /\ svc_call'.conversation_id \notin DOMAIN conversations)
              => (svc_call'.result = "None" /\ conversations' = conversations)]_vars

\* an add to a conversation that was created and cleaned up has returned
\* None, while a stored conversation holds messages added after its welcome
C30_Witness ==
    /\ svc_call.op \in {"add_user_message", "add_agent_message"}
    /\ svc_call.result = "None"
    /\ svc_call.conversation_id < next_conversation_id
    /\ \E c \in DOMAIN conversations : conversations[c].message_count > 1

(***************************************************************************)
(* Properties of the /chat endpoints (SpecChat)                            *)
(***************************************************************************)
\* the request in slot r is for a conversation of another user
NonOwner(r) ==
    /\ requests[r].owner # 0
    /\ requests[r].requester # requests[r].owner

\* C28: no chat endpoint returns information about, appends to or deletes a
\* conversation for a requester who is not its owner: the request of a
\* non-owner is refused and no step of it changes the conversation store.
C28_NonOwnerRefused ==
    /\ [](\A r \in Requests :
            (requests[r].pc = "responded" /\ NonOwner(r)) =>
                (requests[r].status \in {401, 403} /\ requests[r].body = "none"))
    /\ [][\A r \in Requests :
              (/\ requests'[r] # requests[r]
               /\ requests'[r].owner # 0
               /\ requests'[r].requester # requests'[r].owner)
                  => conversations' = conversations]_vars

\* the messages of the conversation of the request in slot r, after the step
MessagesAfter(r) ==
    IF requests[r].conversation_id \in DOMAIN conversations'
    THEN conversations'[requests[r].conversation_id].messages
    ELSE <<>>

\* C29: each /chat/message request that is answered 200 has appended the
\* user's message directly followed by the agent's reply to it, whatever
\* other requests and cleanups ran while the agent was awaited.
C29_MessageThenReply ==
    [][\A r \in Requests :
          (/\ requests[r].endpoint = "message"
           /\ requests[r].pc # "responded"
           /\ requests'[r].pc = "responded"
           /\ requests'[r].status = 200)
              => \E k \in 1..(Len(MessagesAfter(r)) - 1) :
                    /\ MessagesAfter(r)[k] = ChatMessage("USER", requests[r].message)
                    /\ MessagesAfter(r)[k + 1] = ChatMessage("AGENT", requests[r].message)]_vars

====
